---------------------------- MODULE Spec2Model ----------------------------
(***************************************************************************)
(* A model of the xv6-riscv network stack of kernel/net.c: the frame       *)
(* dispatcher (net_rx, arp_rx, ip_rx), the port registry with its per-port *)
(* delivery queues (ring_*, next_free_ring, find_ring) and the system      *)
(* calls bind and recv.                                                    *)
(*                                                                         *)
(* Execution contexts: one interrupt context, which runs the dispatcher    *)
(* on every frame that receive reclaim hands upward, and NTasks tasks      *)
(* issuing system calls.  Each action is one step of one context; the      *)
(* steps are cut where the code touches shared state (the slot table, a    *)
(* queue, a queue lock), so the contexts interleave between any two such   *)
(* accesses.                                                               *)
(***************************************************************************)
EXTENDS Integers, Sequences, FiniteSets, TLC

(***************************************************************************)
(* Bounds of the model.                                                    *)
(***************************************************************************)
\* number of tasks issuing system calls
NTasks == 2
\* system calls the tasks may issue in one behaviour of Spec
MaxCalls == 3
\* frames that receive reclaim hands to net_rx in one behaviour of Spec
MaxFrames == 2
\* size of the slot table (RINGS_NUM is 100 in net.c; scaled down)
RINGS_NUM == 3
\* width in bits of the read and write cursors (uint32 in net.c; scaled down)
CursorBits == 6
\* frames delivered, and system calls issued, in one behaviour of SpecFill
FillFrames == 18
FillCalls == 18
\* failed enqueues in a row in one behaviour of SpecRing
MaxDropped == 2
\* frames delivered, and system calls issued, in one behaviour of SpecLive
LiveFrames == 2
LiveCalls == 4
\* pages of the allocator, and frames the hardware receives, in one behaviour of SpecDrv
DrvPages == 19
DrvFrames == 18
\* kalloc calls that return 0 while free pages remain, in one behaviour of SpecDrv or SpecSend
MaxAllocFails == 1
\* pages of the allocator, and system calls issued, in one behaviour of SpecSend
SendPages == 2
SendCalls == 2
\* width in bits of int (32 in the code; scaled down)
IntBits == 16
\* frames delivered, and system calls issued, in one behaviour of SpecShare
ShareFrames == 3
ShareCalls == 5
\* frames delivered, and system calls issued, in one behaviour of SpecLen
LenFrames == 2
LenCalls == 3

(***************************************************************************)
(* Program constants.                                                      *)
(***************************************************************************)
MAX_QUEUE_LEN == 16
\* header sizes and ethernet types of net.h, as given by the wire formats
ETH_HLEN == 14
ARP_HLEN == 28
IP_HLEN == 20
UDP_HLEN == 8
ETHTYPE_IP == 2048
ETHTYPE_ARP == 2054
RX_RING_SIZE == 16
\* ring size and descriptor status bits of e1000_dev.h, the page size of riscv.h
TX_RING_SIZE == 16
E1000_TXD_STAT_DD == 1
E1000_RXD_STAT_DD == 1
E1000_RXD_STAT_EOP == 2
PGSIZE == 4096
IPPROTO_UDP == 17

VARIABLES
  rings,      \* the slot table: rings[i] = [dport, read, write, dropped, queue]
  lock,       \* lock[i]: holder of rings[i].lock (0 = not held)
  seen_arp,   \* the static flag of arp_rx
  mem,        \* mem[b]: the frame held by receive buffer b
  freed,      \* freed[b]: number of kfree calls made on buffer b
  nrx,        \* number of frames handed to net_rx so far (= last buffer id)
  txlog,      \* frames handed to e1000_transmit, in order
  hpc,        \* position of the interrupt context
  hbuf,       \* buffer the interrupt context is dispatching
  hring,      \* slot found by ip_rx (-1: none)
  tpc,        \* tpc[t]: position of task t
  tport,      \* tport[t]: port argument of the running call
  tmaxlen,    \* tmaxlen[t]: maxlen argument of the running recv
  tring,      \* tring[t]: slot the running call works on
  tpkt,       \* tpkt[t]: the packet recv dequeued
  tret,       \* tret[t]: what the last finished call returned
  calls,      \* system calls the tasks may still issue
  panicked,   \* the kernel has panicked
  claimed,    \* history: claimed[i] = port of the bind call that claimed slot i (-1: none)
  bindcalled, \* history: ports bind has been called with
  delivered,  \* history: buffers enqueued successfully, as <<slot, buffer>>, in order
  recvd,      \* history: what every recv that dequeued a packet was asked and copied out, in order
  live,       \* history: live[i] = packets enqueued in slot i since its ring_init and not dequeued
  tx_ring,    \* e1000.c: tx_ring[i] = status of transmit descriptor i
  rx_ring,    \* e1000.c: rx_ring[i] = [addr, status, length] of receive descriptor i
  regs,       \* e1000.c: the device registers TDH, TDT, RDH, RDT
  lock_rx,    \* e1000.c: e1000_lock_rx is held (by the interrupt context)
  dpc,        \* position of the driver (e1000_init, then e1000_recv)
  di,         \* the loop counter i of e1000_init and e1000_recv
  didx,       \* the index idx of e1000_recv
  nalloc,     \* nalloc[b]: number of kalloc calls that returned page b
  nfail,      \* number of kalloc calls that returned 0
  rxlog,      \* history: <<idx, addr>> of every descriptor e1000_recv handed to net_rx, in order
  nhw,        \* number of frames the hardware has written to receive buffers
  sargs,      \* sargs[t]: the arguments of task t's running send
  sbuf        \* sbuf[t]: the buffer task t's running send allocated

hvars == <<hpc, hbuf, hring>>
tvars == <<tpc, tport, tmaxlen, tring, tpkt, tret, calls>>
gvars == <<claimed, bindcalled, delivered, recvd, live>>
dvars == <<tx_ring, rx_ring, regs, lock_rx, dpc, di, didx, nalloc, nfail, rxlog, nhw>>
svars == <<sargs, sbuf>>
xvars == <<dvars, svars>>
vars == <<rings, lock, seen_arp, mem, freed, nrx, txlog, hvars, tvars, panicked, gvars, xvars>>

Tasks == 1..NTasks
\* lock holder id of the interrupt context
INTR == NTasks + 1
Slots == 0..(RINGS_NUM - 1)
\* port numbers the frames carry, and those the tasks pass to bind and recv
Ports == {0, 1, 2}
TaskPorts == {0, 1}
MaxLens == {100}

(***************************************************************************)
(* Integer conversions.                                                    *)
(***************************************************************************)
\* 2^n
RECURSIVE Pow2(_)
Pow2(n) == IF n = 0 THEN 1 ELSE 2 * Pow2(n - 1)

\* number of values of a cursor (uint32 in the code)
UMOD == Pow2(CursorBits)

\* conversion of an unsigned cursor value to int
ToInt(u) == IF u >= UMOD \div 2 THEN u - UMOD ELSE u

\* the % operator of C: the remainder has the sign of the dividend
CRem(a, n) == IF a >= 0 THEN a % n ELSE 0 - ((0 - a) % n)

\* ntohs and htons swap the two bytes of a 16-bit value
bswap16(x) == (x % 256) * 256 + (x \div 256)
ntohs(x) == bswap16(x)
htons(x) == bswap16(x)

(***************************************************************************)
(* The delivery queue: struct packet, struct bind_ring_buffer, ring_*.     *)
(***************************************************************************)
\* a zeroed struct packet
NoPacket == [buf |-> 0, sport |-> 0, len |-> 0]

\* the cells ring->queue[i] the code can address: ring_mod yields an index
\* in -(MAX_QUEUE_LEN-1) .. MAX_QUEUE_LEN-1; the array itself is 0..MAX_QUEUE_LEN-1
Cells == (1 - MAX_QUEUE_LEN)..(MAX_QUEUE_LEN - 1)

\* a zeroed struct bind_ring_buffer (static storage)
ZeroRing == [dport |-> 0, read |-> 0, write |-> 0, dropped |-> 0,
             queue |-> [c \in Cells |-> NoPacket]]

ring_init(ring) ==
  [ring EXCEPT !.queue = [c \in Cells |-> IF c >= 0 THEN NoPacket ELSE ring.queue[c]],
               !.read = 0, !.write = 0, !.dropped = 0]

ring_mod(num) == CRem(ToInt(num), MAX_QUEUE_LEN)

ring_empty(ring) == ring.write = ring.read

ring_size(ring) == ToInt((ring.write - ring.read) % UMOD)

\* ring_full comparing with one more than the capacity
ring_full_late(ring) == ring_size(ring) = MAX_QUEUE_LEN + 1

ring_full(ring) == ring_size(ring) = MAX_QUEUE_LEN

\* ring_enqueue that stores the packet even when the ring is full
ring_enqueue_always(ring, packet) ==
  [ring |-> [ring EXCEPT !.queue[ring_mod(ring.write)] = packet, !.write = (@ + 1) % UMOD],
   rc |-> 0]

\* ring_enqueue: [ring |-> the ring afterwards, rc |-> the value returned]
ring_enqueue(ring, packet) ==
  IF ring_full(ring)
    THEN [ring |-> [ring EXCEPT !.dropped = @ + 1], rc |-> 1]
    ELSE [ring |-> [ring EXCEPT !.queue[ring_mod(ring.write)] = packet,
                                !.write = (@ + 1) % UMOD],
          rc |-> 0]

\* ring_dequeue: [ring, rc, packet written through the out pointer]
ring_dequeue(ring) ==
  IF ring_empty(ring)
    THEN [ring |-> ring, rc |-> 1, packet |-> NoPacket]
    ELSE [ring |-> [ring EXCEPT !.read = (@ + 1) % UMOD], rc |-> 0,
          packet |-> ring.queue[ring_mod(ring.read)]]

(***************************************************************************)
(* The slot table.                                                         *)
(***************************************************************************)
\* index of the first slot whose dport equals port, -1 if there is none
FirstSlot(rs, port) ==
  IF \E i \in Slots : rs[i].dport = port
    THEN CHOOSE i \in Slots : rs[i].dport = port /\ \A j \in Slots : j < i => rs[j].dport # port
    ELSE -1

\* find_ring: the slot found, -1 for the null pointer
find_ring(rs, port) == FirstSlot(rs, port)

\* next_free_ring scans for dport == 0: the slot it claims, -1 when it panics
next_free_ring(rs) == FirstSlot(rs, 0)

(***************************************************************************)
(* Frames.  A frame records the fields the code reads, each as the value   *)
(* the little-endian load of its bytes yields (network byte order on the   *)
(* wire): the ethernet type, the frame length, the IP header length        *)
(* nibble, the source address, the two 16-bit words o1, o2 that follow the *)
(* fixed 20-byte IP header when the header carries options (ihl = 6), and  *)
(* the UDP source port, destination port and length.                       *)
(***************************************************************************)
bswap32(x) ==
  (x % 256) * 16777216 + ((x \div 256) % 256) * 65536
    + ((x \div 65536) % 256) * 256 + (x \div 16777216)
ntohl(x) == bswap32(x)
htonl(x) == bswap32(x)

NoFrame == [type |-> 0, len |-> 0, ihl |-> 0, src |-> 0, o1 |-> 0, o2 |-> 0,
            sport |-> 0, dport |-> 0, ulen |-> 0]

\* a frame of ethernet type ty and length len that carries no datagram
PlainFrame(ty, len) == [NoFrame EXCEPT !.type = htons(ty), !.len = len]

\* an IP/UDP frame from the peer 10.0.2.2 (MAKE_IP_ADDR(10, 0, 2, 2))
UdpFrame(len, ihl, o1, o2, sport, dport, ulen) ==
  [type |-> htons(ETHTYPE_IP), len |-> len, ihl |-> ihl, src |-> htonl(167772674),
   o1 |-> htons(o1), o2 |-> htons(o2),
   sport |-> htons(sport), dport |-> htons(dport), ulen |-> htons(ulen)]

\* the struct udp the code sees at byte offset off of the IP header
UdpAt(f, off) ==
  IF off = f.ihl * 4
    THEN [sport |-> f.sport, dport |-> f.dport, ulen |-> f.ulen]
    ELSE [sport |-> f.o1, dport |-> f.o2, ulen |-> f.sport]

\* the UDP destination port a frame carries
UdpDport(f) == ntohs(f.dport)

\* frames the hardware delivers in behaviours of Spec
Frames ==
  {PlainFrame(34525, 60),
   PlainFrame(ETHTYPE_ARP, ETH_HLEN + ARP_HLEN),
   PlainFrame(ETHTYPE_ARP, ETH_HLEN + ARP_HLEN - 1),
   PlainFrame(ETHTYPE_IP, ETH_HLEN + IP_HLEN - 1)}
  \cup {UdpFrame(60, 5, 0, 0, 7, p, UDP_HLEN + 5) : p \in Ports}
  \cup {UdpFrame(64, 6, 9, 1, 7, 2, UDP_HLEN + 5)}

(***************************************************************************)
(* Collaborators outside net.c: the page allocator, the spinlock, sleep    *)
(* and wakeup, the driver's transmit.                                      *)
(***************************************************************************)
\* kfree(b): one more free of buffer b
kfree(fr, b) == [fr EXCEPT ![b] = @ + 1]

\* release(&rings[i].lock) by who: the lock afterwards (release panics when
\* who does not hold the lock)
release(lk, i, who) == [lk EXCEPT ![i] = 0]
holding(lk, i, who) == lk[i] = who

\* wakeup(&rings[i]): every task sleeping on the slot becomes runnable and
\* re-acquires the lock inside sleep
wakeup(pc, tr, i) ==
  [t \in Tasks |-> IF pc[t] = "sleeping" /\ tr[t] = i THEN "acquire" ELSE pc[t]]

\* e1000_transmit(buf, len): the frame is handed to the driver
e1000_transmit(log, frame) == Append(log, frame)

(***************************************************************************)
(* The dispatcher: net_rx, arp_rx, ip_rx.                                  *)
(***************************************************************************)
\* net_rx without its length checks
net_rx_nolen(f) ==
  IF ntohs(f.type) = ETHTYPE_ARP THEN "arp_rx"
  ELSE IF ntohs(f.type) = ETHTYPE_IP THEN "ip_rx"
  ELSE "kfree"

\* the branch net_rx takes for frame f
net_rx(f) ==
  IF f.len >= ETH_HLEN + ARP_HLEN /\ ntohs(f.type) = ETHTYPE_ARP THEN "arp_rx"
  ELSE IF f.len >= ETH_HLEN + IP_HLEN /\ ntohs(f.type) = ETHTYPE_IP THEN "ip_rx"
  ELSE "kfree"

\* receive reclaim hands frame f, in a fresh buffer, to net_rx
NetRx(f) ==
  /\ ~panicked /\ hpc = "idle" /\ nrx + 1 \in DOMAIN mem
  /\ nrx' = nrx + 1
  /\ mem' = [mem EXCEPT ![nrx + 1] = f]
  /\ hbuf' = nrx + 1
  /\ IF net_rx(f) = "kfree"
       THEN hpc' = "idle" /\ freed' = kfree(freed, nrx + 1)
       ELSE hpc' = net_rx(f) /\ freed' = freed
  /\ UNCHANGED <<rings, lock, seen_arp, txlog, hring, tvars, panicked, gvars>>
  /\ UNCHANGED xvars

\* arp_rx without the test of its static flag
arp_rx_replies_always(seen) == TRUE

\* arp_rx replies when the static flag is still clear
arp_rx_replies(seen) == seen = 0

\* the ARP reply arp_rx builds for the request in buffer b
ArpReply(b) == [type |-> htons(ETHTYPE_ARP), len |-> ETH_HLEN + ARP_HLEN, inbuf |-> b]

ArpRx ==
  /\ ~panicked /\ hpc = "arp_rx"
  /\ IF ~arp_rx_replies(seen_arp)
       THEN /\ freed' = kfree(freed, hbuf)
            /\ hpc' = "idle"
            /\ UNCHANGED <<seen_arp, txlog, panicked>>
       ELSE /\ seen_arp' = 1
            /\ \E ok \in BOOLEAN :     \* kalloc() succeeds or returns 0
                 IF ok
                   THEN /\ txlog' = e1000_transmit(txlog, ArpReply(hbuf))
                        /\ freed' = kfree(freed, hbuf)
                        /\ hpc' = "idle"
                        /\ UNCHANGED panicked
                   ELSE /\ panicked' = TRUE
                        /\ UNCHANGED <<txlog, freed, hpc>>
  /\ UNCHANGED <<rings, lock, mem, nrx, hbuf, hring, tvars, gvars>>
  /\ UNCHANGED xvars

\* the destination port ip_rx looks up: it reads the UDP header right
\* after the fixed-size struct ip
ip_rx_dport(f) == ntohs(UdpAt(f, IP_HLEN).dport)

\* the packet ip_rx queues for buffer b
ip_rx_packet(b, f) == [buf |-> b, sport |-> ntohs(UdpAt(f, IP_HLEN).sport), len |-> f.len]

\* ip_rx up to the null check on find_ring's result
IpRxFind ==
  /\ ~panicked /\ hpc = "ip_rx"
  /\ LET r == find_ring(rings, ip_rx_dport(mem[hbuf])) IN
       IF r = -1
         THEN /\ freed' = kfree(freed, hbuf)
              /\ hpc' = "idle"
              /\ UNCHANGED hring
         ELSE /\ hring' = r
              /\ hpc' = "enqueue"
              /\ UNCHANGED freed
  /\ UNCHANGED <<rings, lock, seen_arp, mem, nrx, txlog, hbuf, tvars, panicked, gvars>>
  /\ UNCHANGED xvars

\* ip_rx: ring_enqueue, and kfree when it fails (the lock is not held here)
IpRxEnqueue ==
  /\ ~panicked /\ hpc = "enqueue"
  /\ LET res == ring_enqueue(rings[hring], ip_rx_packet(hbuf, mem[hbuf])) IN
       /\ rings' = [rings EXCEPT ![hring] = res.ring]
       /\ IF res.rc # 0
            THEN freed' = kfree(freed, hbuf) /\ UNCHANGED <<delivered, live>>
            ELSE /\ delivered' = Append(delivered, <<hring, hbuf>>)
                 /\ live' = [live EXCEPT ![hring] = Append(@, ip_rx_packet(hbuf, mem[hbuf]))]
                 /\ UNCHANGED freed
  /\ hpc' = "acquire"
  /\ UNCHANGED <<lock, seen_arp, mem, nrx, txlog, hbuf, hring, tvars, panicked,
                 claimed, bindcalled, recvd>>
  /\ UNCHANGED xvars

\* ip_rx: acquire(&ring->lock)
IpRxAcquire ==
  /\ ~panicked /\ hpc = "acquire"
  /\ lock[hring] = 0
  /\ lock' = [lock EXCEPT ![hring] = INTR]
  /\ hpc' = "wakeup"
  /\ UNCHANGED <<rings, seen_arp, mem, freed, nrx, txlog, hbuf, hring, tvars, panicked, gvars>>
  /\ UNCHANGED xvars

\* ip_rx without its wakeup call
ip_rx_no_wakeup(pc, tr, i) == pc

\* the signal ip_rx gives with the lock held: wakeup(ring)
ip_rx_wakeup(pc, tr, i) == wakeup(pc, tr, i)

\* ip_rx: wakeup(ring); release(&ring->lock)
IpRxWakeup ==
  /\ ~panicked /\ hpc = "wakeup"
  /\ tpc' = ip_rx_wakeup(tpc, tring, hring)
  /\ IF holding(lock, hring, INTR)
       THEN lock' = release(lock, hring, INTR) /\ hpc' = "idle" /\ UNCHANGED panicked
       ELSE panicked' = TRUE /\ UNCHANGED <<lock, hpc>>
  /\ UNCHANGED <<rings, seen_arp, mem, freed, nrx, txlog, hbuf, hring,
                 tport, tmaxlen, tring, tpkt, tret, calls, gvars>>
  /\ UNCHANGED xvars

(***************************************************************************)
(* The system calls bind and recv.                                         *)
(***************************************************************************)
\* sys_bind: next_free_ring(port) claims the first slot with dport == 0
SysBind(t, port) ==
  /\ ~panicked /\ tpc[t] = "idle" /\ calls > 0
  /\ calls' = calls - 1
  /\ tport' = [tport EXCEPT ![t] = port]
  /\ bindcalled' = bindcalled \cup {port}
  /\ LET i == next_free_ring(rings) IN
       IF i = -1
         THEN /\ panicked' = TRUE
              /\ UNCHANGED <<rings, claimed, tring, tpc>>
         ELSE /\ rings' = [rings EXCEPT ![i].dport = port]
              /\ claimed' = [claimed EXCEPT ![i] = port]
              /\ tring' = [tring EXCEPT ![t] = i]
              /\ tpc' = [tpc EXCEPT ![t] = "ring_init"]
              /\ UNCHANGED panicked
  /\ UNCHANGED <<lock, seen_arp, mem, freed, nrx, txlog, hvars, tmaxlen, tpkt, tret,
                 delivered, recvd, live>>
  /\ UNCHANGED xvars

\* sys_bind: ring_init(ring), which ends with initlock; return 1
BindInit(t) ==
  /\ ~panicked /\ tpc[t] = "ring_init"
  /\ rings' = [rings EXCEPT ![tring[t]] = ring_init(@)]
  /\ lock' = [lock EXCEPT ![tring[t]] = 0]
  /\ live' = [live EXCEPT ![tring[t]] = <<>>]
  /\ tret' = [tret EXCEPT ![t] = 1]
  /\ tpc' = [tpc EXCEPT ![t] = "idle"]
  /\ UNCHANGED <<seen_arp, mem, freed, nrx, txlog, hvars, tport, tmaxlen, tring, tpkt,
                 calls, panicked, claimed, bindcalled, delivered, recvd>>
  /\ UNCHANGED xvars

\* sys_recv up to the null check on find_ring's result
SysRecv(t, port, maxlen) ==
  /\ ~panicked /\ tpc[t] = "idle" /\ calls > 0
  /\ calls' = calls - 1
  /\ tport' = [tport EXCEPT ![t] = port]
  /\ tmaxlen' = [tmaxlen EXCEPT ![t] = maxlen]
  /\ LET r == find_ring(rings, port) IN
       IF r = -1
         THEN /\ tret' = [tret EXCEPT ![t] = -1]
              /\ UNCHANGED <<tring, tpc>>
         ELSE /\ tring' = [tring EXCEPT ![t] = r]
              /\ tpc' = [tpc EXCEPT ![t] = "acquire"]
              /\ UNCHANGED tret
  /\ UNCHANGED <<rings, lock, seen_arp, mem, freed, nrx, txlog, hvars, tpkt, panicked, gvars>>
  /\ UNCHANGED xvars

\* acquire(&ring->lock), in sys_recv and again inside sleep after a wakeup
RecvAcquire(t) ==
  /\ ~panicked /\ tpc[t] = "acquire"
  /\ lock[tring[t]] = 0
  /\ lock' = [lock EXCEPT ![tring[t]] = t]
  /\ tpc' = [tpc EXCEPT ![t] = "check"]
  /\ UNCHANGED <<rings, seen_arp, mem, freed, nrx, txlog, hvars, tport, tmaxlen, tring,
                 tpkt, tret, calls, panicked, gvars>>
  /\ UNCHANGED xvars

\* the loop test of sys_recv: recv goes on to sleep while the queue is empty
recv_waits(ring) == ring_empty(ring)

\* while (ring_empty(ring)): the test, made with the lock held
RecvCheck(t) ==
  /\ ~panicked /\ tpc[t] = "check"
  /\ tpc' = [tpc EXCEPT ![t] = IF recv_waits(rings[tring[t]]) THEN "sleep" ELSE "dequeue"]
  /\ UNCHANGED <<rings, lock, seen_arp, mem, freed, nrx, txlog, hvars, tport, tmaxlen, tring,
                 tpkt, tret, calls, panicked, gvars>>
  /\ UNCHANGED xvars

\* sleep(ring, &ring->lock): the task releases the lock and becomes a sleeper
\* on the slot in one step with respect to wakeup
RecvSleep(t) ==
  /\ ~panicked /\ tpc[t] = "sleep"
  /\ IF holding(lock, tring[t], t)
       THEN /\ lock' = release(lock, tring[t], t)
            /\ tpc' = [tpc EXCEPT ![t] = "sleeping"]
            /\ UNCHANGED panicked
       ELSE panicked' = TRUE /\ UNCHANGED <<lock, tpc>>
  /\ UNCHANGED <<rings, seen_arp, mem, freed, nrx, txlog, hvars, tport, tmaxlen, tring,
                 tpkt, tret, calls, gvars>>
  /\ UNCHANGED xvars

\* ring_dequeue and release(&ring->lock); -1 when ring_dequeue fails
RecvDequeue(t) ==
  /\ ~panicked /\ tpc[t] = "dequeue"
  /\ LET res == ring_dequeue(rings[tring[t]]) IN
       IF ~holding(lock, tring[t], t)
         THEN panicked' = TRUE /\ UNCHANGED <<rings, lock, tpkt, tret, tpc, live>>
         ELSE /\ rings' = [rings EXCEPT ![tring[t]] = res.ring]
              /\ lock' = release(lock, tring[t], t)
              /\ UNCHANGED panicked
              /\ IF res.rc # 0
                   THEN /\ tret' = [tret EXCEPT ![t] = -1]
                        /\ tpc' = [tpc EXCEPT ![t] = "idle"]
                        /\ UNCHANGED <<tpkt, live>>
                   ELSE /\ tpkt' = [tpkt EXCEPT ![t] = res.packet]
                        /\ live' = [live EXCEPT ![tring[t]] = IF @ = <<>> THEN @ ELSE Tail(@)]
                        /\ tpc' = [tpc EXCEPT ![t] = "copy"]
                        /\ UNCHANGED tret
  /\ UNCHANGED <<seen_arp, mem, freed, nrx, txlog, hvars, tport, tmaxlen, tring, calls,
                 claimed, bindcalled, delivered, recvd>>
  /\ UNCHANGED xvars

\* the byte count recv copies and returns
recv_len(maxlen, f) ==
  LET udp_len == ntohs(UdpAt(f, f.ihl * 4).ulen) - UDP_HLEN IN
    IF maxlen > udp_len THEN udp_len ELSE maxlen

\* what recv(port, ..., maxlen) copies out for packet pkt, and returns (rc):
\* the source port as a short, the source address, rc bytes of the payload
\* of the frame in pkt.buf
recv_out(port, pkt, f, maxlen) ==
  [port |-> port, buf |-> pkt.buf, sport |-> pkt.sport % 65536, src |-> ntohl(f.src),
   rc |-> recv_len(maxlen, f)]

\* sys_recv after the lock is released: the copyouts, kfree and return
RecvCopy(t) ==
  /\ ~panicked /\ tpc[t] = "copy"
  /\ IF tpkt[t].buf = 0
       THEN panicked' = TRUE /\ UNCHANGED <<tret, freed, recvd, tpc>>
       ELSE /\ tret' = [tret EXCEPT ![t] = recv_len(tmaxlen[t], mem[tpkt[t].buf])]
            /\ freed' = kfree(freed, tpkt[t].buf)
            /\ recvd' = Append(recvd, recv_out(tport[t], tpkt[t], mem[tpkt[t].buf], tmaxlen[t]))
            /\ tpc' = [tpc EXCEPT ![t] = "idle"]
            /\ UNCHANGED panicked
  /\ UNCHANGED <<rings, lock, seen_arp, mem, nrx, txlog, hvars, tport, tmaxlen, tring,
                 tpkt, calls, claimed, bindcalled, delivered, live>>
  /\ UNCHANGED xvars

(***************************************************************************)
(* The system: rings[], tx_ring[] and rx_ring[] are zeroed static storage, *)
(* e1000_init has not run, no task is in a call.                           *)
(***************************************************************************)
\* a zeroed struct rx_desc
ZeroDesc == [addr |-> 0, status |-> 0, length |-> 0]

\* no send call
NoSend == [sport |-> 0, dst |-> 0, dport |-> 0, len |-> 0]

InitWith(nframes, ncalls) ==
  /\ rings = [i \in Slots |-> ZeroRing]
  /\ lock = [i \in Slots |-> 0]
  /\ seen_arp = 0
  /\ mem = [b \in 1..nframes |-> NoFrame]
  /\ freed = [b \in 1..nframes |-> 0]
  /\ nrx = 0
  /\ txlog = <<>>
  /\ hpc = "idle" /\ hbuf = 0 /\ hring = -1
  /\ tpc = [t \in Tasks |-> "idle"]
  /\ tport = [t \in Tasks |-> 0]
  /\ tmaxlen = [t \in Tasks |-> 0]
  /\ tring = [t \in Tasks |-> -1]
  /\ tpkt = [t \in Tasks |-> NoPacket]
  /\ tret = [t \in Tasks |-> 0]
  /\ calls = ncalls
  /\ panicked = FALSE
  /\ claimed = [i \in Slots |-> -1]
  /\ bindcalled = {}
  /\ delivered = <<>>
  /\ recvd = <<>>
  /\ live = [i \in Slots |-> <<>>]
  /\ tx_ring = [i \in 0..(TX_RING_SIZE - 1) |-> 0]
  /\ rx_ring = [i \in 0..(RX_RING_SIZE - 1) |-> ZeroDesc]
  /\ regs = [TDH |-> 0, TDT |-> 0, RDH |-> 0, RDT |-> 0]
  /\ lock_rx = 0
  /\ dpc = "boot" /\ di = 0 /\ didx = 0
  /\ nalloc = [b \in 1..nframes |-> 0]
  /\ nfail = 0
  /\ rxlog = <<>>
  /\ nhw = 0
  /\ sargs = [t \in Tasks |-> NoSend]
  /\ sbuf = [t \in Tasks |-> 0]

Init == InitWith(MaxFrames, MaxCalls)

Interrupt ==
  \/ \E f \in Frames : NetRx(f)
  \/ ArpRx
  \/ IpRxFind
  \/ IpRxEnqueue
  \/ IpRxAcquire
  \/ IpRxWakeup

Task(t) ==
  \/ \E port \in TaskPorts : SysBind(t, port)
  \/ BindInit(t)
  \/ \E port \in TaskPorts, maxlen \in MaxLens : SysRecv(t, port, maxlen)
  \/ RecvAcquire(t)
  \/ RecvCheck(t)
  \/ RecvSleep(t)
  \/ RecvDequeue(t)
  \/ RecvCopy(t)

Next == Interrupt \/ \E t \in Tasks : Task(t)

Spec == Init /\ [][Next]_vars

\* the steps of ip_rx
HandlerStep == IpRxFind \/ IpRxEnqueue \/ IpRxAcquire \/ IpRxWakeup

(***************************************************************************)
(* The page allocator (kalloc.c) as its callers see it: kalloc returns a   *)
(* page that is not allocated, or 0.  A page is allocated while it has     *)
(* been returned by kalloc more often than it has been passed to kfree.    *)
(***************************************************************************)
FreePages(na, fr) == {b \in DOMAIN na : na[b] = fr[b]}

\* the values a kalloc call may return
kalloc(na, fr, nf) ==
  (IF FreePages(na, fr) = {} \/ nf < MaxAllocFails THEN {0} ELSE {})
    \cup {b \in FreePages(na, fr) : \A c \in FreePages(na, fr) : b <= c}

\* the allocator's books after kalloc returned b
kalloc_count(na, b) == IF b = 0 THEN na ELSE [na EXCEPT ![b] = @ + 1]
kalloc_fails(nf, b) == IF b = 0 THEN nf + 1 ELSE nf

(***************************************************************************)
(* sys_send and in_cksum.                                                  *)
(***************************************************************************)
\* number of values of an int, and the largest int
IntMod == Pow2(IntBits)
MaxInt == IntMod \div 2 - 1

\* conversion of an integer value to int: the low IntBits bits, as a signed value
ToCInt(x) == IF x % IntMod >= IntMod \div 2 THEN (x % IntMod) - IntMod ELSE x % IntMod

\* int total = len + sizeof(struct eth) + sizeof(struct ip) + sizeof(struct udp)
send_total(len) == ToCInt(len + ETH_HLEN + IP_HLEN + UDP_HLEN)

\* local_ip = MAKE_IP_ADDR(10, 0, 2, 15)
local_ip == 167772687

\* sum of the elements of a sequence of numbers
RECURSIVE SumSeq(_)
SumSeq(ws) == IF ws = <<>> THEN 0 ELSE Head(ws) + SumSeq(Tail(ws))

\* in_cksum without the two steps that add the carries back
in_cksum_nocarry(ws) == 65535 - (SumSeq(ws) % 65536)

\* in_cksum over an even number of bytes, given as the 16-bit words the loop
\* loads: the 32-bit sum of the words, the carries added back twice, the
\* complement truncated to 16 bits
in_cksum(ws) ==
  LET sum1 == SumSeq(ws)
      sum2 == (sum1 % 65536) + (sum1 \div 65536)
      sum3 == sum2 + (sum2 \div 65536)
  IN 65535 - (sum3 % 65536)

\* the 16-bit words of the struct ip that send builds, as loaded from memory,
\* with ip_sum = sum
ip_words(dst, len, sum) ==
  <<69, htons((IP_HLEN + UDP_HLEN + len) % 65536), 0, 0, 100 + 256 * IPPROTO_UDP, sum,
    htonl(local_ip) % 65536, htonl(local_ip) \div 65536,
    htonl(dst) % 65536, htonl(dst) \div 65536>>

\* the frame send builds in buffer b for the arguments a
send_frame(b, a) ==
  [type |-> htons(ETHTYPE_IP), len |-> send_total(a.len), buf |-> b,
   ip |-> ip_words(a.dst, a.len, in_cksum(ip_words(a.dst, a.len, 0))),
   sport |-> htons(a.sport % 65536), dport |-> htons(a.dport % 65536),
   ulen |-> htons((a.len + UDP_HLEN) % 65536)]

\* sys_send: the arguments, total, and the check total > PGSIZE
SysSend(t, a) ==
  /\ ~panicked /\ tpc[t] = "idle" /\ calls > 0
  /\ calls' = calls - 1
  /\ sargs' = [sargs EXCEPT ![t] = a]
  /\ IF send_total(a.len) > PGSIZE
       THEN tret' = [tret EXCEPT ![t] = -1] /\ UNCHANGED tpc
       ELSE tpc' = [tpc EXCEPT ![t] = "send_alloc"] /\ UNCHANGED tret
  /\ UNCHANGED <<rings, lock, seen_arp, mem, freed, nrx, txlog, hvars, tport, tmaxlen, tring,
                 tpkt, panicked, gvars, dvars, sbuf>>

\* sys_send: buf = kalloc() and the null check
SendAlloc(t) ==
  /\ ~panicked /\ tpc[t] = "send_alloc"
  /\ \E b \in kalloc(nalloc, freed, nfail) :
       /\ nalloc' = kalloc_count(nalloc, b)
       /\ nfail' = kalloc_fails(nfail, b)
       /\ sbuf' = [sbuf EXCEPT ![t] = b]
       /\ IF b = 0
            THEN tret' = [tret EXCEPT ![t] = -1] /\ tpc' = [tpc EXCEPT ![t] = "idle"]
            ELSE tpc' = [tpc EXCEPT ![t] = "send_copyin"] /\ UNCHANGED tret
  /\ UNCHANGED <<rings, lock, seen_arp, mem, freed, nrx, txlog, hvars, tport, tmaxlen, tring,
                 tpkt, calls, panicked, gvars, tx_ring, rx_ring, regs, lock_rx, dpc, di,
                 didx, rxlog, nhw, sargs>>

\* copyin(pagetable, payload, bufaddr, len) takes len as a uint64 and copies
\* that many bytes to payload: inside the page of the buffer when
\* 0 <= len <= PGSIZE - headers, past its end otherwise
copyin_fits(len) == 0 <= len /\ len + ETH_HLEN + IP_HLEN + UDP_HLEN <= PGSIZE

\* sys_send: the headers, copyin, and kfree or e1000_transmit.  copyin fails
\* or succeeds as the user address decides; a copy past the end of the page
\* overwrites kernel memory, after which the kernel crashes or copyin fails
\* on the first unmapped user page
SendCopyin(t) ==
  /\ ~panicked /\ tpc[t] = "send_copyin"
  /\ \E ok \in BOOLEAN :
       IF ~copyin_fits(sargs[t].len) /\ ok
         THEN /\ panicked' = TRUE
              /\ UNCHANGED <<freed, txlog, tret, tpc, sbuf>>
         ELSE IF ~ok
           THEN /\ freed' = kfree(freed, sbuf[t])
                /\ sbuf' = [sbuf EXCEPT ![t] = 0]
                /\ tret' = [tret EXCEPT ![t] = -1]
                /\ tpc' = [tpc EXCEPT ![t] = "idle"]
                /\ UNCHANGED <<txlog, panicked>>
           ELSE /\ txlog' = e1000_transmit(txlog, send_frame(sbuf[t], sargs[t]))
                /\ sbuf' = [sbuf EXCEPT ![t] = 0]
                /\ tret' = [tret EXCEPT ![t] = 0]
                /\ tpc' = [tpc EXCEPT ![t] = "idle"]
                /\ UNCHANGED <<freed, panicked>>
  /\ UNCHANGED <<rings, lock, seen_arp, mem, nrx, hvars, tport, tmaxlen, tring,
                 tpkt, calls, gvars, dvars, sargs>>

(***************************************************************************)
(* The driver: e1000_init, the hardware's receive side, e1000_recv.        *)
(***************************************************************************)
\* e1000_init leaving the status of the transmit descriptors zeroed
tx_status_zero(i) == 0

\* the status e1000_init gives transmit descriptor i
tx_status_init(i) == E1000_TXD_STAT_DD

\* e1000_init: transmit initialization, and the memset of rx_ring
E1000InitTx ==
  /\ ~panicked /\ dpc = "boot"
  /\ tx_ring' = [i \in DOMAIN tx_ring |-> tx_status_init(i)]
  /\ regs' = [regs EXCEPT !.TDH = 0, !.TDT = 0]
  /\ rx_ring' = [i \in DOMAIN rx_ring |-> ZeroDesc]
  /\ di' = 0
  /\ dpc' = "init_rx"
  /\ UNCHANGED <<rings, lock, seen_arp, mem, freed, nrx, txlog, hvars, tvars, panicked, gvars,
                 lock_rx, didx, nalloc, nfail, rxlog, nhw, svars>>

\* e1000_init: one iteration of the loop that allocates the receive buffers
E1000InitRx ==
  /\ ~panicked /\ dpc = "init_rx" /\ di < RX_RING_SIZE
  /\ \E b \in kalloc(nalloc, freed, nfail) :
       /\ nalloc' = kalloc_count(nalloc, b)
       /\ nfail' = kalloc_fails(nfail, b)
       /\ IF b = 0
            THEN panicked' = TRUE /\ UNCHANGED <<rx_ring, di>>
            ELSE /\ rx_ring' = [rx_ring EXCEPT ![di].addr = b]
                 /\ di' = di + 1
                 /\ UNCHANGED panicked
  /\ UNCHANGED <<rings, lock, seen_arp, mem, freed, nrx, txlog, hvars, tvars, gvars,
                 tx_ring, regs, lock_rx, dpc, didx, rxlog, nhw, svars>>

\* e1000_init: the receive head and tail registers; the receiver is enabled
E1000InitRegs ==
  /\ ~panicked /\ dpc = "init_rx" /\ di = RX_RING_SIZE
  /\ regs' = [regs EXCEPT !.RDH = 0, !.RDT = RX_RING_SIZE - 1]
  /\ dpc' = "idle"
  /\ UNCHANGED <<rings, lock, seen_arp, mem, freed, nrx, txlog, hvars, tvars, panicked, gvars,
                 tx_ring, rx_ring, lock_rx, di, didx, nalloc, nfail, rxlog, nhw, svars>>

\* the n-th frame the hardware receives in behaviours of SpecDrv
DrvFrame(n) ==
  IF n % 3 = 1 THEN PlainFrame(34525, 60)
  ELSE IF n % 3 = 2 THEN UdpFrame(60, 5, 0, 0, 7, 2, UDP_HLEN + 5)
  ELSE UdpFrame(60, 5, 0, 0, 7, 0, UDP_HLEN + 5)

\* a descriptor the hardware marked done without end-of-packet
NoEop(d) == d.status = E1000_RXD_STAT_DD

\* the hardware receives frame f: it writes f to the buffer of the descriptor
\* at the head, marks the descriptor done (with or without end-of-packet) and
\* advances the head; it owns the descriptors from the head up to the tail
HwReceive(f) ==
  /\ ~panicked /\ dpc \notin {"boot", "init_rx"}
  /\ nhw < DrvFrames
  /\ regs.RDH # regs.RDT
  /\ LET d == rx_ring[regs.RDH] IN
       /\ \E eop \in BOOLEAN :
            /\ eop \/ \A i \in DOMAIN rx_ring : ~NoEop(rx_ring[i])
            /\ rx_ring' = [rx_ring EXCEPT ![regs.RDH] =
                             [addr |-> d.addr, length |-> f.len,
                              status |-> IF eop THEN E1000_RXD_STAT_DD + E1000_RXD_STAT_EOP
                                                ELSE E1000_RXD_STAT_DD]]
       /\ mem' = IF d.addr \in DOMAIN mem THEN [mem EXCEPT ![d.addr] = f] ELSE mem
  /\ regs' = [regs EXCEPT !.RDH = (@ + 1) % RX_RING_SIZE]
  /\ nhw' = nhw + 1
  /\ UNCHANGED <<rings, lock, seen_arp, freed, nrx, txlog, hvars, tvars, panicked, gvars,
                 tx_ring, lock_rx, dpc, di, didx, nalloc, nfail, rxlog, svars>>

\* e1000_recv: acquire(&e1000_lock_rx); i = 0
RxAcquire ==
  /\ ~panicked /\ dpc = "idle" /\ hpc = "idle"
  /\ lock_rx' = 1
  /\ di' = 0
  /\ dpc' = "loop"
  /\ UNCHANGED <<rings, lock, seen_arp, mem, freed, nrx, txlog, hvars, tvars, panicked, gvars,
                 tx_ring, rx_ring, regs, didx, nalloc, nfail, rxlog, nhw, svars>>

\* e1000_recv inspecting the descriptor at the tail itself
rx_next_tail(rg) == rg.RDT

\* the descriptor e1000_recv inspects: the one after the tail
rx_next(rg) == (rg.RDT + 1) % RX_RING_SIZE

\* e1000_recv: the loop test, the done and end-of-packet tests, and the call
\* net_rx(desc->addr, desc->length) up to the branch net_rx takes
RxInspect ==
  /\ ~panicked /\ dpc = "loop"
  /\ LET idx == rx_next(regs)
         d == rx_ring[idx]
     IN IF di >= RX_RING_SIZE \/ d.status % 2 # E1000_RXD_STAT_DD
          THEN /\ dpc' = "release"
               /\ UNCHANGED <<didx, nrx, rxlog, hpc, hbuf, freed, panicked>>
          ELSE IF (d.status \div E1000_RXD_STAT_EOP) % 2 = 0 \/ d.addr \notin DOMAIN mem
            THEN /\ panicked' = TRUE
                 /\ UNCHANGED <<dpc, didx, nrx, rxlog, hpc, hbuf, freed>>
            ELSE /\ didx' = idx
                 /\ nrx' = nrx + 1
                 /\ rxlog' = Append(rxlog, <<idx, d.addr>>)
                 /\ hbuf' = d.addr
                 /\ IF net_rx(mem[d.addr]) = "kfree"
                      THEN hpc' = "idle" /\ freed' = kfree(freed, d.addr)
                      ELSE hpc' = net_rx(mem[d.addr]) /\ freed' = freed
                 /\ dpc' = "refill"
                 /\ UNCHANGED panicked
  /\ UNCHANGED <<rings, lock, seen_arp, mem, txlog, hring, tvars, gvars,
                 tx_ring, rx_ring, regs, lock_rx, di, nalloc, nfail, nhw, svars>>

\* e1000_recv after net_rx returned: desc->addr = kalloc(); desc->status = 0;
\* regs[E1000_RDT] = idx; ++i
RxRefill ==
  /\ ~panicked /\ dpc = "refill" /\ hpc = "idle"
  /\ \E b \in kalloc(nalloc, freed, nfail) :
       /\ nalloc' = kalloc_count(nalloc, b)
       /\ nfail' = kalloc_fails(nfail, b)
       /\ rx_ring' = [rx_ring EXCEPT ![didx].addr = b, ![didx].status = 0]
  /\ regs' = [regs EXCEPT !.RDT = didx]
  /\ di' = di + 1
  /\ dpc' = "loop"
  /\ UNCHANGED <<rings, lock, seen_arp, mem, freed, nrx, txlog, hvars, tvars, panicked, gvars,
                 tx_ring, lock_rx, didx, rxlog, nhw, svars>>

\* e1000_recv: release(&e1000_lock_rx)
RxRelease ==
  /\ ~panicked /\ dpc = "release"
  /\ lock_rx' = 0
  /\ dpc' = "idle"
  /\ UNCHANGED <<rings, lock, seen_arp, mem, freed, nrx, txlog, hvars, tvars, panicked, gvars,
                 tx_ring, rx_ring, regs, di, didx, nalloc, nfail, rxlog, nhw, svars>>

(***************************************************************************)
(* SpecDrv: e1000_init runs at boot; then the hardware receives frames and *)
(* the interrupt context runs e1000_recv, whose net_rx calls run the       *)
(* dispatcher.  No port is bound.  The interrupt context is scheduled      *)
(* fairly: it finishes what it has started.                                *)
(***************************************************************************)
InitDrv == InitWith(DrvPages, 0)

DriverStep ==
  \/ E1000InitTx
  \/ E1000InitRx
  \/ E1000InitRegs
  \/ RxInspect
  \/ RxRefill
  \/ RxRelease

NextDrv ==
  \/ HwReceive(DrvFrame(nhw + 1))
  \/ RxAcquire
  \/ DriverStep
  \/ HandlerStep

SpecDrv ==
  /\ InitDrv /\ [][NextDrv]_vars
  /\ WF_vars(DriverStep)
  /\ WF_vars(HandlerStep)

(***************************************************************************)
(* SpecSend: the tasks call send with lengths from below zero to the       *)
(* largest int and with several destination addresses; the allocator may   *)
(* fail and copyin may fail.                                               *)
(***************************************************************************)
\* the len arguments of the send calls of SpecSend
SendLens == {-1, 0, 5, PGSIZE - ETH_HLEN - IP_HLEN - UDP_HLEN,
             PGSIZE - ETH_HLEN - IP_HLEN - UDP_HLEN + 1, MaxInt}

\* the dst arguments: 0.0.0.0, 10.0.2.2, 127.255.255.127
SendDsts == {0, 167772674, 2147483519}

SendArgs == {[sport |-> 2000, dst |-> dst, dport |-> 25, len |-> len] :
               dst \in SendDsts, len \in SendLens}

InitSend == InitWith(SendPages, SendCalls)

NextSend ==
  \E t \in Tasks :
    \/ \E a \in SendArgs : SysSend(t, a)
    \/ SendAlloc(t)
    \/ SendCopyin(t)

SpecSend == InitSend /\ [][NextSend]_vars

(***************************************************************************)
(* SpecFill: one bind call claims a slot for port 1; from then on the      *)
(* hardware delivers more datagrams for port 1 than a queue holds, and a   *)
(* task receives on port 1.                                                *)
(***************************************************************************)
FillFrame == UdpFrame(60, 5, 0, 0, 7, 1, UDP_HLEN + 5)

InitFill == InitWith(FillFrames, FillCalls)

\* the tasks that issue system calls in SpecFill
FillTasks == {1}

NextFill ==
  \/ bindcalled # {} /\ NetRx(FillFrame)
  \/ IpRxFind
  \/ IpRxEnqueue
  \/ IpRxAcquire
  \/ IpRxWakeup
  \/ \E t \in FillTasks :
       \/ bindcalled = {} /\ SysBind(t, 1)
       \/ BindInit(t)
       \/ bindcalled # {} /\ SysRecv(t, 1, 100)
       \/ RecvAcquire(t)
       \/ RecvCheck(t)
       \/ RecvSleep(t)
       \/ RecvDequeue(t)
       \/ RecvCopy(t)

SpecFill == InitFill /\ [][NextFill]_vars

(***************************************************************************)
(* SpecLen: one task binds port 1 and receives, with several max_length    *)
(* arguments, datagrams for port 1 whose UDP length field ranges from 0    *)
(* over the header size to a full payload.                                 *)
(***************************************************************************)
\* UDP length fields of the frames of SpecLen
LenUlens == {0, UDP_HLEN - 1, UDP_HLEN, UDP_HLEN + 5, 1480}

\* max_length arguments of the recv calls of SpecLen
LenMaxLens == {0, 5, 100}

LenFrame(ulen) == UdpFrame(60, 5, 0, 0, 7, 1, ulen)

InitLen == InitWith(LenFrames, LenCalls)

NextLen ==
  \/ \E ulen \in LenUlens : bindcalled # {} /\ NetRx(LenFrame(ulen))
  \/ HandlerStep
  \/ \E t \in FillTasks :
       \/ bindcalled = {} /\ SysBind(t, 1)
       \/ BindInit(t)
       \/ \E maxlen \in LenMaxLens : bindcalled # {} /\ SysRecv(t, 1, maxlen)
       \/ RecvAcquire(t)
       \/ RecvCheck(t)
       \/ RecvSleep(t)
       \/ RecvDequeue(t)
       \/ RecvCopy(t)

SpecLen == InitLen /\ [][NextLen]_vars

\* the steps inside the system calls of task t
CallStep(t) ==
  \/ BindInit(t)
  \/ RecvAcquire(t)
  \/ RecvCheck(t)
  \/ RecvSleep(t)
  \/ RecvDequeue(t)
  \/ RecvCopy(t)

(***************************************************************************)
(* SpecShare: task 1 binds port 1; once bind has returned, all tasks call  *)
(* recv on port 1 and the hardware delivers datagrams for port 1.          *)
(***************************************************************************)
InitShare == InitWith(ShareFrames, ShareCalls)

\* the bind call of SpecShare has returned
ShareBound == bindcalled # {} /\ \A t \in Tasks : tpc[t] # "ring_init"

NextShare ==
  \/ ShareBound /\ NetRx(FillFrame)
  \/ HandlerStep
  \/ bindcalled = {} /\ SysBind(1, 1)
  \/ \E t \in Tasks :
       \/ ShareBound /\ SysRecv(t, 1, 100)
       \/ CallStep(t)

SpecShare == InitShare /\ [][NextShare]_vars

(***************************************************************************)
(* SpecRing: a caller applies ring_init, ring_enqueue and ring_dequeue to  *)
(* the ring of slot 0, in any order and long enough for the cursors to     *)
(* wrap.  The packet handed to ring_enqueue is tagged with the write       *)
(* cursor, which makes the entries between the cursors pairwise different. *)
(***************************************************************************)
rvars == <<lock, seen_arp, mem, freed, nrx, txlog, hvars, tpc, tport, tmaxlen, tring,
           tret, calls, panicked, claimed, bindcalled, delivered, recvd>>

RingInput == [buf |-> rings[0].write + 1, sport |-> 7, len |-> 60]

RingInit ==
  /\ rings' = [rings EXCEPT ![0] = ring_init(@)]
  /\ live' = [live EXCEPT ![0] = <<>>]
  /\ UNCHANGED <<rvars, tpkt>>
  /\ UNCHANGED xvars

RingEnqueue ==
  /\ ~(ring_full(rings[0]) /\ rings[0].dropped >= MaxDropped)
  /\ LET res == ring_enqueue(rings[0], RingInput) IN
       /\ rings' = [rings EXCEPT ![0] = res.ring]
       /\ live' = IF res.rc = 0 THEN [live EXCEPT ![0] = Append(@, RingInput)] ELSE live
  /\ UNCHANGED <<rvars, tpkt>>
  /\ UNCHANGED xvars

RingDequeue ==
  /\ LET res == ring_dequeue(rings[0]) IN
       /\ rings' = [rings EXCEPT ![0] = res.ring]
       /\ IF res.rc = 0
            THEN /\ tpkt' = [tpkt EXCEPT ![1] = res.packet]
                 /\ live' = [live EXCEPT ![0] = IF @ = <<>> THEN @ ELSE Tail(@)]
            ELSE UNCHANGED <<tpkt, live>>
  /\ UNCHANGED rvars
  /\ UNCHANGED xvars

NextRing == RingInit \/ RingEnqueue \/ RingDequeue

SpecRing == Init /\ [][NextRing]_vars

(***************************************************************************)
(* SpecLive: task t binds port t and receives on it, the hardware delivers *)
(* datagrams for these ports.  Scheduling is fair: the interrupt context   *)
(* finishes the handler it runs, and a task that can take a step inside a  *)
(* system call eventually takes one.                                       *)
(***************************************************************************)
InitLive == InitWith(LiveFrames, LiveCalls)

NextLive ==
  \/ \E p \in Tasks : NetRx(UdpFrame(60, 5, 0, 0, 7, p, UDP_HLEN + 5))
  \/ HandlerStep
  \/ \E t \in Tasks :
       \/ SysBind(t, t)
       \/ SysRecv(t, t, 100)
       \/ CallStep(t)

SpecLive ==
  /\ InitLive /\ [][NextLive]_vars
  /\ WF_vars(HandlerStep)
  /\ \A t \in Tasks : WF_vars(CallStep(t))

(***************************************************************************)
(* Vocabulary of the properties.                                           *)
(***************************************************************************)
\* buffers handed to net_rx so far
Handed == 1..nrx

\* frames net_rx may route to the ARP, respectively the IP handler
IsArpFrame(f) == ntohs(f.type) = ETHTYPE_ARP /\ f.len >= ETH_HLEN + ARP_HLEN
IsIpFrame(f) == ntohs(f.type) = ETHTYPE_IP /\ f.len >= ETH_HLEN + IP_HLEN

\* the cells of slot i between its read and its write cursor
LiveCells(i) ==
  {ring_mod((rings[i].read + k) % UMOD) : k \in 0..(((rings[i].write - rings[i].read) % UMOD) - 1)}

\* buffer b is held in a queue entry between the cursors of some slot
InQueue(b) == \E i \in Slots : \E c \in LiveCells(i) : rings[i].queue[c].buf = b

\* the dispatcher is working on buffer b and has neither queued nor freed it
InDispatch(b) == hbuf = b /\ hpc \in {"arp_rx", "ip_rx", "enqueue"}

\* a recv call has dequeued buffer b and not yet freed it
InRecvCopy(b) == \E t \in Tasks : tpc[t] = "copy" /\ tpkt[t].buf = b

\* task t is inside recv, past the null check on find_ring's result
InRecv(t) == tpc[t] \in {"acquire", "check", "sleep", "sleeping", "dequeue", "copy"}

\* ARP frames arp_rx has finished with
ArpHandled == {b \in Handed : IsArpFrame(mem[b]) /\ ~(hbuf = b /\ hpc = "arp_rx")}

\* positions of the ARP replies among the transmitted frames
ArpReplies == {k \in DOMAIN txlog : ntohs(txlog[k].type) = ETHTYPE_ARP}

\* the elements of sequence q
Range(q) == {q[k] : k \in DOMAIN q}

\* the entries of slot i from its read to its write cursor, oldest first
QueueSeq(i) ==
  [k \in 1..((rings[i].write - rings[i].read) % UMOD) |->
     rings[i].queue[ring_mod((rings[i].read + k - 1) % UMOD)]]

\* bind has claimed slot i and has returned
Bound(i) == claimed[i] # -1 /\ \A t \in Tasks : ~(tpc[t] = "ring_init" /\ tring[t] = i)

(***************************************************************************)
(* C9. ARP single-shot: once arp_rx has finished with one or more ARP      *)
(* frames, exactly one ARP reply has been handed to transmit, it answers   *)
(* the first ARP frame, and every ARP frame arp_rx finished with has been  *)
(* freed exactly once (an ARP frame whose reply buffer cannot be allocated *)
(* stops the kernel inside arp_rx, which then never finishes with it).     *)
(***************************************************************************)
C9_ArpSingleShot ==
  /\ Cardinality(ArpReplies) <= 1
  /\ ArpHandled # {} =>
       /\ Cardinality(ArpReplies) = 1
       /\ \A k \in ArpReplies :
            /\ txlog[k].inbuf \in ArpHandled
            /\ \A b \in ArpHandled : txlog[k].inbuf <= b
            /\ txlog[k].len = ETH_HLEN + ARP_HLEN
  /\ \A b \in ArpHandled : freed[b] = 1

\* two ARP frames have been handled, and one reply was transmitted
C9_Witness ==
  /\ Cardinality(ArpHandled) >= 2
  /\ Len(txlog) = 1

(***************************************************************************)
(* C10. net_rx hands a frame to arp_rx only if its type is ARP and its     *)
(* length at least ETH+ARP header size, to ip_rx only if its type is IP    *)
(* and its length at least ETH+IP header size; any other frame is freed    *)
(* exactly once, in the same step, which changes no queue, drop counter,   *)
(* slot, seen-flag and transmits nothing; and it is never freed again.     *)
(***************************************************************************)
C10_Classify ==
  /\ [][nrx' = nrx + 1 =>
          LET f == mem'[nrx'] IN
            /\ hpc' = "arp_rx" => IsArpFrame(f)
            /\ hpc' = "ip_rx" => IsIpFrame(f)
            /\ hpc' \in {"arp_rx", "ip_rx", "idle"}
            /\ (~IsArpFrame(f) /\ ~IsIpFrame(f)) =>
                 /\ hpc' = "idle"
                 /\ freed'[nrx'] = 1
                 /\ rings' = rings /\ lock' = lock /\ seen_arp' = seen_arp
                 /\ txlog' = txlog /\ live' = live /\ ~panicked']_vars
  /\ [](\A b \in Handed : (~IsArpFrame(mem[b]) /\ ~IsIpFrame(mem[b])) => freed[b] = 1)

\* a frame of type ARP that is one byte too short has been freed by net_rx
C10_Witness ==
  \E b \in Handed :
    /\ ntohs(mem[b].type) = ETHTYPE_ARP /\ mem[b].len = ETH_HLEN + ARP_HLEN - 1
    /\ freed[b] = 1 /\ hpc = "idle"

(***************************************************************************)
(* C8. An IP/UDP datagram whose UDP destination port no bind call has      *)
(* claimed a slot for is dropped by ip_rx: when ip_rx returns from its     *)
(* lookup the buffer has been freed, the handler is done, and no slot, no  *)
(* queue, no cursor and no drop counter has changed, and the kernel has    *)
(* not panicked.                                                           *)
(***************************************************************************)
NoBoundSlot(port) == \A i \in Slots : claimed[i] # port

C8_UnboundDropped ==
  [][(hpc = "ip_rx" /\ hpc' # "ip_rx" /\ NoBoundSlot(UdpDport(mem[hbuf]))) =>
       /\ hpc' = "idle"
       /\ freed'[hbuf] = freed[hbuf] + 1
       /\ rings' = rings
       /\ ~panicked']_vars

(***************************************************************************)
(* C7. recv on a port that bind was never called with returns -1 at once:  *)
(* no task is ever inside recv, past the lookup of the slot, with a port   *)
(* that no bind call was given, and the slot recv works on is one a bind   *)
(* call has claimed.                                                       *)
(***************************************************************************)
C7_RecvUnboundFails ==
  \A t \in Tasks : InRecv(t) => (tport[t] \in bindcalled /\ claimed[tring[t]] # -1)

(***************************************************************************)
(* C6. Port isolation: every datagram a recv(B) call returned carries the  *)
(* UDP destination port B, and every entry between the cursors of a slot   *)
(* that a bind call has claimed carries the UDP destination port the slot  *)
(* is bound to.                                                            *)
(***************************************************************************)
C6_PortIsolation ==
  /\ \A k \in DOMAIN recvd : UdpDport(mem[recvd[k].buf]) = recvd[k].port
  /\ \A i \in Slots :
       claimed[i] # -1 =>
         \A c \in LiveCells(i) :
           rings[i].queue[c].buf # 0 => UdpDport(mem[rings[i].queue[c].buf]) = rings[i].dport

(***************************************************************************)
(* C4. Every recv(port) that returned a datagram returned one addressed to *)
(* that port that ip_rx had enqueued, namely the oldest datagram delivered *)
(* to that port that no earlier recv returned, with its UDP source port    *)
(* and its IP source address.                                              *)
(***************************************************************************)
\* buffers of the datagrams addressed to port that were enqueued, oldest first
DeliveredTo(port) ==
  SelectSeq(delivered, LAMBDA e : UdpDport(mem[e[2]]) = port)

\* buffers the first k recv calls returned
ReturnedBefore(k) == {recvd[j].buf : j \in 1..(k - 1)}

\* the entries of q that are not in set S
Without(q, S) == SelectSeq(q, LAMBDA e : e[2] \notin S)

C4_RecvOldest ==
  \A k \in DOMAIN recvd :
    LET e == recvd[k]
        f == mem[e.buf]
        pending == Without(DeliveredTo(e.port), ReturnedBefore(k))
    IN /\ UdpDport(f) = e.port
       /\ pending # <<>> /\ pending[1][2] = e.buf
       /\ e.sport = ntohs(f.sport)
       /\ e.src = ntohl(f.src)

(***************************************************************************)
(* C1. Every buffer handed to net_rx is freed exactly once: it is never    *)
(* freed twice, a freed buffer is in no queue entry between the cursors,   *)
(* and a buffer not yet freed is still owned by the dispatcher, by a queue *)
(* entry between the cursors, or by a recv call that dequeued it.          *)
(***************************************************************************)
C1_FreedExactlyOnce ==
  \A b \in Handed :
    /\ freed[b] <= 1
    /\ freed[b] = 1 => ~InQueue(b) /\ ~InDispatch(b) /\ ~InRecvCopy(b)
    /\ freed[b] = 0 => InQueue(b) \/ InDispatch(b) \/ InRecvCopy(b)

(***************************************************************************)
(* C2. When the queue of a bound port holds 16 datagrams that no recv has  *)
(* dequeued, ip_rx's enqueue of one more datagram drops it: the cursors    *)
(* and entries of the queue do not change, the drop counter grows by       *)
(* exactly 1 and the buffer is freed.  The entries of a bound slot's queue *)
(* are, from the read cursor on, the datagrams enqueued and not yet        *)
(* dequeued in arrival order; only an enqueue at the end or a dequeue at   *)
(* the front changes them, and every dequeue of recv yields the oldest.    *)
(***************************************************************************)
C2_FullQueueDrops ==
  /\ [][(hpc = "enqueue" /\ hpc' # "enqueue" /\ Bound(hring)
          /\ Len(live[hring]) = MAX_QUEUE_LEN) =>
           /\ rings'[hring].read = rings[hring].read
           /\ rings'[hring].write = rings[hring].write
           /\ rings'[hring].queue = rings[hring].queue
           /\ rings'[hring].dropped = rings[hring].dropped + 1
           /\ freed'[hbuf] = freed[hbuf] + 1
           /\ QueueSeq(hring)' = QueueSeq(hring)
           /\ \A i \in Slots \ {hring} : rings'[i] = rings[i]]_vars
  /\ [][\A t \in Tasks :
          (tpc[t] = "dequeue" /\ tpc'[t] # "dequeue" /\ Bound(tring[t])) =>
             /\ live[tring[t]] # <<>>
             /\ tpc'[t] = "copy"
             /\ tpkt'[t] = Head(live[tring[t]])
             /\ QueueSeq(tring[t]) # <<>>
             /\ QueueSeq(tring[t])' = Tail(QueueSeq(tring[t]))]_vars
  /\ [][\A i \in Slots :
          (Bound(i) /\ QueueSeq(i)' # QueueSeq(i)) =>
             \/ QueueSeq(i) # <<>> /\ QueueSeq(i)' = Tail(QueueSeq(i))
             \/ /\ Len(QueueSeq(i)) < MAX_QUEUE_LEN
                /\ Len(QueueSeq(i)') = Len(QueueSeq(i)) + 1
                /\ SubSeq(QueueSeq(i)', 1, Len(QueueSeq(i))) = QueueSeq(i)]_vars
  /\ [](\A i \in Slots : Bound(i) => QueueSeq(i) = live[i])

\* the 17th datagram for port 1 was dropped and counted while the first 16
\* were queued, and 16 recv calls then returned these 16, oldest first
C2_Witness ==
  /\ rings[0].dropped = 1
  /\ freed[MAX_QUEUE_LEN + 1] = 1
  /\ \A e \in Range(delivered) : e[2] # MAX_QUEUE_LEN + 1
  /\ Len(recvd) = MAX_QUEUE_LEN
  /\ \A k \in DOMAIN recvd : recvd[k].buf = k /\ recvd[k].port = 1

(***************************************************************************)
(* C3. Over any sequence of ring_enqueue and ring_dequeue calls on one     *)
(* queue since its ring_init, write - read taken modulo the cursor width   *)
(* equals the number of entries enqueued successfully and not dequeued,    *)
(* lies in 0..16 and is what ring_size returns; the entries between the    *)
(* cursors are these entries in order; and a successful enqueue leaves     *)
(* every entry between the cursors as it was.  The entries are the cells   *)
(* queue[ring_mod(cursor)] the code addresses; whether ring_mod's result   *)
(* is an index of the array is not part of this property.                  *)
(***************************************************************************)
C3_RingArithmetic ==
  /\ [](LET n == (rings[0].write - rings[0].read) % UMOD IN
          /\ n = Len(live[0])
          /\ n \in 0..MAX_QUEUE_LEN
          /\ ring_size(rings[0]) = n
          /\ ring_empty(rings[0]) <=> n = 0
          /\ QueueSeq(0) = live[0])
  /\ [][Len(live'[0]) = Len(live[0]) + 1 =>
          /\ rings'[0].write = (rings[0].write + 1) % UMOD
          /\ rings'[0].read = rings[0].read
          /\ \A c \in LiveCells(0) : rings'[0].queue[c] = rings[0].queue[c]]_vars

\* the write cursor has wrapped past the cursor width while the read cursor
\* has not, the queue holds 16 entries and has refused a 17th
C3_Witness ==
  /\ rings[0].write < rings[0].read
  /\ Len(live[0]) = MAX_QUEUE_LEN
  /\ rings[0].dropped > 0

(***************************************************************************)
(* C5. No wakeup is lost: whenever a task is in recv's wait on its bound   *)
(* port (about to take the lock, testing for empty, about to sleep, or     *)
(* asleep) and the queue holds a datagram ip_rx enqueued, the task         *)
(* eventually returns from recv (or the kernel has panicked).              *)
(***************************************************************************)
InWait(t) == tpc[t] \in {"acquire", "check", "sleep", "sleeping"}

C5_NoLostWakeup ==
  \A t \in Tasks :
    (InWait(t) /\ Bound(tring[t]) /\ live[tring[t]] # <<>>) ~> (tpc[t] = "idle" \/ panicked)

\* a task has found its queue empty and is about to sleep, while ip_rx has
\* already enqueued a datagram there and waits for the lock to signal
C5_Witness ==
  \E t \in Tasks :
    /\ tpc[t] = "sleep" /\ Bound(tring[t])
    /\ live[tring[t]] # <<>>
    /\ hpc = "acquire" /\ hring = tring[t]


(***************************************************************************)
(* The driver claims, under SpecDrv.                                       *)
(***************************************************************************)
InInit == dpc \in {"boot", "init_rx"}

\* what e1000_init leaves behind
InitPost ==
  /\ \A i \in DOMAIN tx_ring : tx_ring[i] % 2 = E1000_TXD_STAT_DD
  /\ \A i \in DOMAIN rx_ring : rx_ring[i].addr # 0
  /\ \A i, j \in DOMAIN rx_ring : i # j => rx_ring[i].addr # rx_ring[j].addr
  /\ regs.TDH = 0 /\ regs.TDT = 0
  /\ regs.RDH = 0 /\ regs.RDT = RX_RING_SIZE - 1

\* C11: when e1000_init returns, every transmit descriptor has its done bit
\* set, every receive descriptor holds a non-null buffer address distinct from
\* the others', the transmit head and tail are 0, the receive head is 0 and
\* the receive tail is RX_RING_SIZE - 1; and e1000_init panics if, and only
\* if, the allocation of a receive buffer fails.
C11_InitPostcondition ==
  [][/\ (InInit /\ ~InInit') => InitPost'
     /\ (InInit /\ nfail' # nfail) => panicked'
     /\ (InInit /\ panicked') => nfail' # nfail]_vars

\* e1000_init has returned and nothing has happened since
C11_Witness == dpc = "idle" /\ nhw = 0 /\ lock_rx = 0 /\ InitPost /\ ~panicked


(***************************************************************************)
(* The bind claims, under Spec.                                            *)
(***************************************************************************)
\* task t takes the next_free_ring step of bind, without panic
BindClaimStep(t) == tpc[t] = "idle" /\ tpc'[t] = "ring_init"

\* task t takes the ring_init step of bind
BindInitStep(t) == tpc[t] = "ring_init" /\ tpc'[t] = "idle"

\* every slot but i is left as it was
OthersUnchanged(i) == \A j \in Slots \ {i} : rings'[j] = rings[j]

\* What the two steps of bind do to the table: next_free_ring claims the
\* lowest slot whose dport is 0, sets its dport and leaves the other slots
\* alone, and panics if, and only if, no slot has dport 0; ring_init zeroes
\* the cursors and the drop counter of the claimed slot and leaves the other
\* slots alone.
BindSteps ==
  [][\A t \in Tasks :
       /\ BindClaimStep(t) =>
            /\ tring'[t] = FirstSlot(rings, 0) /\ tring'[t] # -1
            /\ rings'[tring'[t]].dport = tport'[t]
            /\ OthersUnchanged(tring'[t])
       /\ BindInitStep(t) =>
            /\ rings'[tring[t]].read = 0 /\ rings'[tring[t]].write = 0
            /\ rings'[tring[t]].dropped = 0
            /\ OthersUnchanged(tring[t])
       /\ (tpc[t] = "idle" /\ tport'[t] # tport[t] /\ panicked') =>
            \A i \in Slots : rings[i].dport # 0]_vars

\* C12: bind(port) claims the lowest-index slot whose bound port is 0,
\* whether or not port is already bound, so that every bind call occupies a
\* slot of its own (a slot no earlier bind call has claimed); when bind
\* returns, the slot carries dport = port and zero cursors and drop counter.
C12_BindClaims ==
  [][\A t \in Tasks :
       /\ BindClaimStep(t) =>
            /\ tring'[t] = FirstSlot(rings, 0)
            /\ claimed[tring'[t]] = -1
       /\ BindInitStep(t) =>
            /\ rings'[tring[t]].dport = tport[t]
            /\ rings'[tring[t]].read = 0 /\ rings'[tring[t]].write = 0
            /\ rings'[tring[t]].dropped = 0]_vars


(***************************************************************************)
(* The recv length claim, under SpecLen.                                   *)
(***************************************************************************)
\* task t takes the last step of recv: the copyouts and the return
RecvReturnStep(t) == tpc[t] = "copy" /\ tpc'[t] = "idle"

\* the payload length the datagram in task t's packet announces: the UDP
\* length field minus the UDP header size
PayloadLen(t) ==
  LET f == mem[tpkt[t].buf] IN ntohs(UdpAt(f, f.ihl * 4).ulen) - UDP_HLEN

Min(a, b) == IF a < b THEN a ELSE b

\* recv returns min(max_length, UDP length - UDP header size), which is never
\* more than max_length
RecvLenMin ==
  [][\A t \in Tasks :
       RecvReturnStep(t) =>
         /\ tret'[t] = Min(tmaxlen[t], PayloadLen(t))
         /\ tret'[t] <= tmaxlen[t]]_vars

\* C13: the byte count recv returns is min(max_length, UDP length - UDP
\* header size), is never negative and never exceeds max_length, also when
\* the UDP length field is smaller than the UDP header size.
C13_RecvLength ==
  [][\A t \in Tasks :
       RecvReturnStep(t) =>
         /\ tret'[t] = Min(tmaxlen[t], PayloadLen(t))
         /\ tret'[t] >= 0
         /\ tret'[t] <= tmaxlen[t]]_vars


(***************************************************************************)
(* The send claims, under SpecSend.                                        *)
(***************************************************************************)
\* the bytes of headers and payload of the frame for a send of len bytes
FrameBytes(len) == ETH_HLEN + IP_HLEN + UDP_HLEN + len

\* task t's send returns from the kalloc step, from the copyin step
SendAllocReturn(t) == tpc[t] = "send_alloc" /\ tpc'[t] = "idle"
SendCopyinReturn(t) == tpc[t] = "send_copyin" /\ tpc'[t] = "idle"

\* What send does once it has passed its length check: when the allocation
\* fails it returns -1 and transmits nothing; when the copy-in fails it frees
\* the buffer, returns -1 and transmits nothing; otherwise it returns 0 and
\* hands exactly one frame, in the buffer it allocated, to transmit.
SendSteps ==
  [][\A t \in Tasks :
       /\ SendAllocReturn(t) =>
            /\ tret'[t] = -1 /\ txlog' = txlog /\ nalloc' = nalloc /\ sbuf'[t] = 0
       /\ (SendCopyinReturn(t) /\ tret'[t] = -1) =>
            /\ txlog' = txlog /\ freed'[sbuf[t]] = nalloc[sbuf[t]] /\ sbuf'[t] = 0
       /\ (SendCopyinReturn(t) /\ tret'[t] # -1) =>
            /\ tret'[t] = 0
            /\ Len(txlog') = Len(txlog) + 1
            /\ txlog'[Len(txlog')].buf = sbuf[t]
            /\ freed' = freed]_vars

\* C14: send fails with -1 and leaves no buffer allocated in each failure
\* case - when headers plus payload exceed one page it returns before
\* allocating, when the allocation fails it transmits nothing, when the
\* copy-in fails it frees the buffer and transmits nothing - and otherwise
\* hands exactly one frame to transmit; no send call allocates or copies for
\* a frame that exceeds one page.
C14_SendOutcome ==
  [][\A t \in Tasks :
       /\ (tpc[t] = "idle" /\ tpc'[t] = "send_alloc") => FrameBytes(sargs'[t].len) <= PGSIZE
       /\ tpc[t] = "send_copyin" => ~panicked'
       /\ SendAllocReturn(t) => (tret'[t] = -1 /\ txlog' = txlog)
       /\ (SendCopyinReturn(t) /\ tret'[t] = -1) =>
            (txlog' = txlog /\ freed'[sbuf[t]] = nalloc[sbuf[t]])
       /\ (SendCopyinReturn(t) /\ tret'[t] # -1) =>
            (tret'[t] = 0 /\ Len(txlog') = Len(txlog) + 1)]_vars

\* the ones'-complement sum a receiver computes over the words of a header
OnesSum(ws) ==
  LET s1 == SumSeq(ws)
      s2 == (s1 % 65536) + (s1 \div 65536)
  IN (s2 + (s2 \div 65536)) % 65536

\* the frames send handed to transmit
SentFrames == {k \in DOMAIN txlog : txlog[k].type = htons(ETHTYPE_IP)}

\* C15: for every frame send hands to transmit, the ones'-complement sum of
\* the 16-bit words of the IP header, the checksum field included, folds to
\* 0xFFFF.
C15_ChecksumRoundTrip == \A k \in SentFrames : OnesSum(txlog[k].ip) = 65535

\* send has handed over a frame whose header words, without the checksum,
\* add up past 16 bits, so that in_cksum had carries to add back
C15_Witness ==
  \E k \in SentFrames :
    /\ SumSeq(txlog[k].ip) - txlog[k].ip[6] > 65535
    /\ OnesSum(txlog[k].ip) = 65535


(***************************************************************************)
(* The receive reclaim claims, under SpecDrv.                              *)
(***************************************************************************)
\* C16: the receive-ring lock is never held while the dispatcher is running:
\* whenever net_rx or a handler it called is at work on a buffer,
\* e1000_lock_rx is free.
C16_RxLockFreeInDispatch == hpc # "idle" => lock_rx = 0

\* receive reclaim publishes a new receive tail
PublishTail == dpc = "refill" /\ dpc' = "loop"

\* buffer b has a holder other than descriptor i: the dispatcher, a delivery
\* queue, a recv call, or another descriptor
HeldElsewhere(b, i) ==
  \/ hpc # "idle" /\ hbuf = b
  \/ InQueue(b)
  \/ InRecvCopy(b)
  \/ \E j \in DOMAIN rx_ring : j # i /\ rx_ring[j].addr = b

\* the descriptor at the receive tail, and whether its buffer is allocated
\* and has no other holder
TailDesc == rx_ring[regs.RDT]
TailFresh ==
  /\ nalloc[TailDesc.addr] = freed[TailDesc.addr] + 1
  /\ ~HeldElsewhere(TailDesc.addr, regs.RDT)

\* When receive reclaim publishes a new receive tail, the descriptor at the
\* tail has its status cleared, and the buffer it holds, when it holds one,
\* is allocated and has no other holder.
RefillSteps ==
  [][PublishTail => (TailDesc.status = 0 /\ (TailDesc.addr # 0 => TailFresh))']_vars

\* C17: whenever receive reclaim publishes a new receive tail, the descriptor
\* it returns to the hardware has its status cleared and holds a freshly
\* allocated, non-null buffer that no other holder owns, also when the page
\* allocator has no page to give.
C17_RefillFresh ==
  [][PublishTail => (TailDesc.status = 0 /\ TailDesc.addr # 0 /\ TailFresh)']_vars


(***************************************************************************)
(* The queue lock claim, under Spec.                                       *)
(***************************************************************************)
\* C18: every read or write of a delivery queue's cursors and entries
\* happens while that queue's lock is held: the IP handler holds the lock of
\* the slot when it is about to enqueue, and a recv call holds the lock of
\* its slot when it is about to test for emptiness or to dequeue.
C18_QueueAccessLocked ==
  /\ hpc = "enqueue" => holding(lock, hring, INTR)
  /\ \A t \in Tasks : tpc[t] \in {"check", "dequeue"} => holding(lock, tring[t], t)

\* The recv side of the lock discipline: a recv call that is about to test
\* for emptiness or to dequeue holds the lock of its slot (as long as no bind
\* call re-initializes the slot meanwhile, as in SpecFill).
RecvAccessLocked ==
  \A t \in Tasks : tpc[t] \in {"check", "dequeue"} => holding(lock, tring[t], t)


(***************************************************************************)
(* The receive reclaim loop, under SpecDrv.                                *)
(***************************************************************************)
\* the index and the descriptor after the current tail
AfterTailIdx == (regs.RDT + 1) % RX_RING_SIZE
AfterTail == rx_ring[AfterTailIdx]
Done(d) == d.status % 2 = 1
Eop(d) == (d.status \div 2) % 2 = 1

\* the steps by which one invocation of e1000_recv leaves its loop test
ReclaimStops == dpc = "loop" /\ dpc' = "release"
ReclaimHands == dpc = "loop" /\ dpc' = "refill"
ReclaimPanics == dpc = "loop" /\ panicked'

\* C19: one invocation of receive reclaim terminates after inspecting at most
\* RX_RING_SIZE descriptors: it stops at the first descriptor after the
\* current tail whose done bit is clear (or after RX_RING_SIZE descriptors),
\* hands the buffer of each done descriptor to the dispatcher exactly once
\* and in ring order, and ends by releasing the receive lock, unless the
\* kernel panics; a done descriptor without the end-of-packet bit is never
\* delivered and causes a panic.
C19_ReclaimTerminates ==
  /\ [](di <= RX_RING_SIZE)
  /\ [](Len(rxlog) <= nhw)
  /\ [](\A k \in DOMAIN rxlog : rxlog[k][1] = (k - 1) % RX_RING_SIZE)
  /\ [](dpc = "idle" => lock_rx = 0)
  /\ [][/\ ReclaimStops => ((di = RX_RING_SIZE \/ ~Done(AfterTail)) /\ nrx' = nrx)
        /\ ReclaimHands =>
             /\ di < RX_RING_SIZE /\ Done(AfterTail) /\ Eop(AfterTail)
             /\ nrx' = nrx + 1
             /\ rxlog' = Append(rxlog, <<AfterTailIdx, AfterTail.addr>>)
        /\ ReclaimPanics => (Done(AfterTail) /\ nrx' = nrx)
        /\ (dpc = "loop" /\ dpc' # dpc /\ di < RX_RING_SIZE /\ Done(AfterTail)
              /\ ~Eop(AfterTail)) => panicked'
        /\ (dpc = "release" /\ dpc' # dpc) => (dpc' = "idle" /\ lock_rx' = 0)]_vars
  /\ (dpc = "loop") ~> ((dpc = "idle" /\ lock_rx = 0) \/ panicked)

\* an invocation has handed RX_RING_SIZE descriptors to the dispatcher and
\* stops although the descriptor after the tail is done
C19_Witness ==
  /\ dpc = "release" /\ di = RX_RING_SIZE /\ Done(AfterTail)
  /\ Len(rxlog) >= RX_RING_SIZE /\ ~panicked

\* an invocation found a done descriptor without the end-of-packet bit
ReclaimPanicked == panicked /\ dpc = "loop" /\ Done(AfterTail) /\ ~Eop(AfterTail)


(***************************************************************************)
(* The slot index, under SpecRing.                                         *)
(***************************************************************************)
\* the indices of the array queue[MAX_QUEUE_LEN]
QueueIndices == 0..(MAX_QUEUE_LEN - 1)

\* C20: the index ring_enqueue and ring_dequeue use, ring_mod of the write
\* and of the read cursor, is an index of the queue array (0..15) for every
\* value of the cursors, also past half of the cursor range and after the
\* cursors have wrapped; and the entries come out in the order they went in.
C20_SlotIndexInRange ==
  /\ ring_mod(rings[0].write) \in QueueIndices
  /\ ring_mod(rings[0].read) \in QueueIndices
  /\ QueueSeq(0) = live[0]

\* While both cursors are below half of the cursor range, the index is an
\* index of the queue array.
SlotIndexLowCursors ==
  \A cur \in {rings[0].read, rings[0].write} :
    cur < UMOD \div 2 => ring_mod(cur) \in QueueIndices


(***************************************************************************)
(* The UDP header offset, under Spec.                                      *)
(***************************************************************************)
\* the UDP header of frame f, at the offset its IP header-length field gives
UdpHeader(f) == UdpAt(f, f.ihl * 4)

\* the dispatcher is in ip_rx with a frame
InIpRx == hpc \in {"ip_rx", "enqueue"}

\* C21: the UDP header is read at the offset given by the IP header-length
\* field everywhere: the destination port ip_rx looks up and the source port
\* it queues are those of the header at that offset, the header recv takes
\* the UDP length and payload from, so that the source port recv reports
\* belongs to the datagram it copies; also for frames whose IP header is
\* longer than 20 bytes.
C21_SameUdpHeader ==
  /\ InIpRx =>
       /\ ip_rx_dport(mem[hbuf]) = ntohs(UdpHeader(mem[hbuf]).dport)
       /\ ip_rx_packet(hbuf, mem[hbuf]).sport = ntohs(UdpHeader(mem[hbuf]).sport)
  /\ \A k \in DOMAIN recvd :
       recvd[k].sport = ntohs(UdpHeader(mem[recvd[k].buf]).sport)

\* For frames whose IP header has no options (header length 20), ip_rx and
\* recv read the same UDP header.
SameUdpHeaderNoOptions ==
  (InIpRx /\ mem[hbuf].ihl * 4 = IP_HLEN) =>
     /\ ip_rx_dport(mem[hbuf]) = ntohs(UdpHeader(mem[hbuf]).dport)
     /\ ip_rx_packet(hbuf, mem[hbuf]).sport = ntohs(UdpHeader(mem[hbuf]).sport)


(***************************************************************************)
(* Delivery during bind, under SpecLive (ports 1 and 2 only).              *)
(***************************************************************************)
\* a bind call is between next_free_ring and the end of ring_init on slot i
BindInProgress(i) == \E t \in Tasks : tpc[t] = "ring_init" /\ tring[t] = i

\* buffer b is in an entry between the cursors of slot i
InQueueOf(i, b) == \E c \in LiveCells(i) : rings[i].queue[c].buf = b

\* the k-th entry ip_rx enqueued is gone: its buffer is neither in the queue
\* it was put in, nor with a recv call that dequeued it, nor freed
Lost(k) ==
  LET i == delivered[k][1]
      b == delivered[k][2]
  IN ~InQueueOf(i, b) /\ ~InRecvCopy(b) /\ freed[b] = 0

\* C22: a datagram that arrives for a port while bind is in progress is not
\* lost silently: once bind has returned, every entry ip_rx enqueued is still
\* in the queue, or has been dequeued by a recv call, or its buffer has been
\* freed.
C22_NoSilentLoss ==
  \A k \in DOMAIN delivered : ~BindInProgress(delivered[k][1]) => ~Lost(k)

\* An entry ip_rx enqueued is lost by no step other than the ring_init of a
\* bind call.
NoLossOutsideBind ==
  [][\A k \in DOMAIN delivered :
       (~Lost(k) /\ Lost(k)') => \E t \in Tasks : BindInitStep(t)]_vars


(***************************************************************************)
(* The dequeue of recv.                                                    *)
(***************************************************************************)
\* C23: recv never dequeues from an empty queue: whenever a task has left
\* the wait loop of recv and is about to call ring_dequeue, the queue of its
\* slot holds at least one entry, so that ring_dequeue cannot fail.
C23_DequeueNonEmpty ==
  \A t \in Tasks : tpc[t] = "dequeue" => ~ring_empty(rings[tring[t]])


\* two tasks are blocked in recv on the same slot, whose queue is empty
BothBlocked ==
  /\ \A t \in Tasks : tpc[t] = "sleeping" /\ tring[t] = 0
  /\ ring_empty(rings[0])

\* a task woken together with another finds the queue empty again and goes
\* back to sleep
WokenToEmpty == \E t \in Tasks : tpc[t] = "sleep" /\ recvd # <<>>

=============================================================================
